---- MODULE Spec2Model ----
(***************************************************************************)
(* Model of the wallet Client (packages/core/src/client.ts): the zustand   *)
(* store it owns, autoConnect() with its single-flight guard, clearState(),*)
(* destroy(), the change/disconnect/error listeners it keeps on the active *)
(* connector, the chain-keyed provider subscription and the persisted      *)
(* subset of the store.  Connectors, the wallet behind them and the caller *)
(* are the environment: every await of the code is a place where the       *)
(* environment may resolve or reject, and where other calls may run.       *)
(*                                                                         *)
(* A second specification, KeplrSpec, models one KeplrConnector            *)
(* (packages/cosmos/src/connectors/keplr.ts) under its caller's connect(), *)
(* disconnect() and switchChain() calls.  A Keplr connector has neither    *)
(* `ready` nor isAuthorized, so autoConnect() never makes it the active    *)
(* connector: each specification leaves the other's variables alone.       *)
(***************************************************************************)
EXTENDS Integers, Sequences, FiniteSets, TLC

\* ---------------------------------------------------------------- bounds
NumConnectors == 2
MaxPending == 2
\* Keplr connector calls that may be pending at once
MaxKeplrCalls == 2

\* ------------------------------------------------------------ value sets
Undefined == "undefined"
Null == "null"

ConnectorPool == <<"a", "b", "c", "d">>
ConnectorName == [a |-> "A", b |-> "B", c |-> "C", d |-> "D"]

Connectors == SubSeq(ConnectorPool, 1, NumConnectors)
ConnectorSet == {Connectors[i] : i \in 1..Len(Connectors)}

\* the account a wallet connects with, and the one it may switch to
ConnectAccounts == {"0x1"}
ChangeAccounts == {"0x2"}
ChainIds == {"c1"}
Errors == {"err"}
Kinds == {"change", "disconnect", "error"}

\* ConnectorData: undefined, or an object whose fields may be missing.
NoData == [defined |-> FALSE, account |-> Undefined, chain |-> Undefined]
MkData(acc, ch) == [defined |-> TRUE, account |-> acc, chain |-> ch]

\* data?.account and data?.chain?.id
AccountOf(d) == IF d.defined THEN d.account ELSE Undefined
ChainIdOf(d) == IF d.defined THEN d.chain ELSE Undefined

VARIABLES
  autoConnect,        \* config.autoConnect
  providerIsFactory,  \* typeof config.provider === "function"
  ready,              \* connectors whose `ready` is true
  authCheck,          \* connectors that have an isAuthorized member
  state,              \* the store's state object
  isAutoConnecting,   \* #isAutoConnecting
  lastUsedConnector,  \* #lastUsedConnector: storage key "wallet" at construction
  storeItem,          \* storage key "store"
  listeners,          \* per connector, the Client listeners attached to it
  peakAttached,       \* most connectors ever holding Client listeners at once
  storeDestroyed,     \* store.destroy() has dropped the store's subscribers
  runs,               \* the autoConnect() invocations being tracked
  destroyPc,          \* position of the destroy() call
  disconnectCalls,    \* number of connector.disconnect() calls made
  keplr,              \* a KeplrConnector's fields: chain, and provider (set?)
  ctorChain,          \* the chain the KeplrConnector was constructed with
  windowKeplr,        \* window.keplr is there
  walletItem,         \* storage key "wallet"
  lastSwitch,         \* argument of the last switchChain() that resolved
  calls               \* the KeplrConnector calls being tracked

clientVars == <<autoConnect, providerIsFactory, ready, authCheck, state,
                isAutoConnecting, lastUsedConnector, storeItem,
                listeners, peakAttached, storeDestroyed, runs, destroyPc,
                disconnectCalls>>

keplrVars == <<keplr, ctorChain, windowKeplr, walletItem, lastSwitch, calls>>

vars == <<clientVars, keplrVars>>

\* what no operation of the Client assigns: its configuration, and the Keplr
\* connector
config == <<autoConnect, providerIsFactory, ready, authCheck, lastUsedConnector,
            keplrVars>>

\* ------------------------------------------------------------- provider
FixedProvider == [factory |-> FALSE, chainId |-> Undefined]
\* provider({ chainId }): a fresh provider for that chain
ProviderFor(chainId) == [factory |-> TRUE, chainId |-> chainId]

\* ----------------------------------------------------------- persistence
\* A "store" item: whether it is a record, whether the record has a data
\* member and what data.account, data.chain and chains hold in it, and which
\* other members of the state it carries.
AbsentItem == [kind |-> "absent", hasData |-> FALSE, account |-> Undefined,
               chain |-> Undefined, chains |-> Undefined, others |-> {}]
CorruptItem == [kind |-> "corrupt", hasData |-> FALSE, account |-> Undefined,
                chain |-> Undefined, chains |-> Undefined, others |-> {}]

\* persist without a partialize option: the whole state is written
Partialize_WholeState(auto, s) ==
  [kind |-> "record",
   hasData |-> s.data.defined,
   account |-> AccountOf(s.data),
   chain |-> ChainIdOf(s.data),
   chains |-> s.chains,
   others |-> {"connector", "connectors", "error", "provider", "status",
               "data.provider"}]

\* persist.partialize, then JSON: undefined members are not written.
Partialize(auto, s) ==
  [kind |-> "record",
   hasData |-> auto,
   account |-> IF auto THEN AccountOf(s.data) ELSE Undefined,
   chain |-> IF auto THEN ChainIdOf(s.data) ELSE Undefined,
   chains |-> s.chains,
   others |-> {}]

\* What an earlier session may have left under "store".
StoredItems ==
  {AbsentItem, CorruptItem}
    \cup {Partialize(a, [data |-> d, chains |-> ch]) :
            a \in BOOLEAN,
            d \in {NoData, MkData("0x1", "c1")},
            ch \in {Undefined}}

\* JSON.parse(rawState || "{}")?.state?.data
ParsedData(item) ==
  IF item.kind = "record" /\ item.hasData
    THEN MkData(item.account, item.chain)
    ELSE NoData

\* The constructor's status check (the catch leaves status untouched).
InitialStatus(auto, item) ==
  IF ~auto \/ item.kind = "corrupt" THEN "disconnected"
  ELSE IF AccountOf(ParsedData(item)) # Undefined THEN "reconnecting"
  ELSE "connecting"

InitialChainId(auto, item) ==
  IF ~auto \/ item.kind = "corrupt" THEN Undefined
  ELSE ChainIdOf(ParsedData(item))

\* The state creator's object.
CreatedState(auto, factory, item) ==
  [chains |-> Undefined,
   connector |-> Undefined,
   connectors |-> Connectors,
   data |-> NoData,
   error |-> Undefined,
   provider |-> IF factory THEN ProviderFor(InitialChainId(auto, item))
                ELSE FixedProvider,
   status |-> InitialStatus(auto, item)]

\* persist's rehydration: { ...created, ...persisted.state }
Hydrated(created, item) ==
  IF item.kind # "record" THEN created
  ELSE [created EXCEPT
          !.data = IF item.hasData THEN MkData(item.account, item.chain)
                   ELSE @,
          !.chains = IF item.chains # Undefined THEN item.chains ELSE @]

\* ---------------------------------------------------------- subscriptions
\* The connector subscription's listener: off x3 on the previous connector,
\* then on x3 on the new one.
OffOps(c) ==
  IF c = Undefined THEN <<>>
  ELSE <<[op |-> "off", connector |-> c, kind |-> "change"],
         [op |-> "off", connector |-> c, kind |-> "disconnect"],
         [op |-> "off", connector |-> c, kind |-> "error"]>>

OnOps(c) ==
  IF c = Undefined THEN <<>>
  ELSE <<[op |-> "on", connector |-> c, kind |-> "change"],
         [op |-> "on", connector |-> c, kind |-> "disconnect"],
         [op |-> "on", connector |-> c, kind |-> "error"]>>

ConnectorListener(connector, prevConnector) ==
  OffOps(prevConnector) \o OnOps(connector)

ApplyOp(ls, o) ==
  [ls EXCEPT ![o.connector] =
     IF o.op = "on" THEN @ \cup {o.kind} ELSE @ \ {o.kind}]

RECURSIVE ApplyOps(_, _)
ApplyOps(ls, ops) ==
  IF ops = <<>> THEN ls ELSE ApplyOps(ApplyOp(ls, Head(ops)), Tail(ops))

Attached(ls) == Cardinality({c \in DOMAIN ls : ls[c] # {}})

Max(a, b) == IF a >= b THEN a ELSE b

\* the largest number of connectors holding listeners while ops are applied
RECURSIVE PeakOver(_, _)
PeakOver(ls, ops) ==
  IF ops = <<>> THEN Attached(ls)
  ELSE Max(Attached(ls), PeakOver(ApplyOp(ls, Head(ops)), Tail(ops)))

\* The on/off calls a state replacement causes: the selector subscription
\* fires when the selected connector differs, while the store has subscribers.
SubscriptionOps(old, new) ==
  IF ~storeDestroyed /\ new.connector # old.connector
    THEN ConnectorListener(new.connector, old.connector)
    ELSE <<>>

\* The provider subscription: when data?.chain?.id differs and the provider is
\* a factory, a nested setState replaces the provider.
ProviderAfter(old, new) ==
  IF ~storeDestroyed /\ providerIsFactory
       /\ ChainIdOf(new.data) # ChainIdOf(old.data)
    THEN ProviderFor(ChainIdOf(new.data))
    ELSE new.provider

\* The state a replacement leaves once the subscribers have reacted.
After(old, new) == [new EXCEPT !.provider = ProviderAfter(old, new)]

\* Client.setState(updater): store.setState(new, true) with the persist
\* middleware's write and the subscribers' reactions.  `old` is the state the
\* updater was applied to.
SetStateFrom(old, new) ==
  /\ state' = After(old, new)
  /\ storeItem' = Partialize(autoConnect, state')
  /\ peakAttached' = Max(peakAttached,
                         PeakOver(listeners, SubscriptionOps(old, new)))
  /\ listeners' = ApplyOps(listeners, SubscriptionOps(old, new))

SetState(new) == SetStateFrom(state, new)

\* clearState()'s updater
Cleared_DropChains(x) ==
  [x EXCEPT !.connector = Undefined, !.data = NoData, !.error = Undefined,
            !.chains = Undefined, !.status = "disconnected"]

Cleared_KeepError(x) ==
  [x EXCEPT !.connector = Undefined, !.data = NoData, !.status = "disconnected"]

Cleared(x) ==
  [x EXCEPT !.connector = Undefined, !.data = NoData, !.error = Undefined,
            !.status = "disconnected"]

\* autoConnect()'s updaters
Connecting(x) ==
  [x EXCEPT !.status = IF AccountOf(x.data) # Undefined THEN "reconnecting"
                       ELSE "connecting"]

Connected(x, connector, data) ==
  [x EXCEPT !.connector = connector, !.chains = connector, !.data = data,
            !.status = "connected"]

NotConnected_KeepData(x) == [x EXCEPT !.status = "disconnected"]

NotConnected(x) == [x EXCEPT !.data = NoData, !.status = "disconnected"]

\* The change and error listeners' updaters
Payloads ==
  {[hasAccount |-> TRUE, account |-> a, hasChain |-> FALSE, chain |-> Undefined] :
     a \in ChangeAccounts}
  \cup {[hasAccount |-> FALSE, account |-> Undefined, hasChain |-> TRUE, chain |-> c] :
     c \in ChainIds}

Merged_Replaces(x, p) ==
  [x EXCEPT !.data = MkData(IF p.hasAccount THEN p.account ELSE Undefined,
                            IF p.hasChain THEN p.chain ELSE Undefined)]

\* data: { ...x.data, ...data }
Merged(x, p) ==
  [x EXCEPT !.data = MkData(IF p.hasAccount THEN p.account ELSE AccountOf(x.data),
                            IF p.hasChain THEN p.chain ELSE ChainIdOf(x.data))]

WithError_Disconnects(x, e) ==
  [x EXCEPT !.error = e, !.status = "disconnected"]

WithError(x, e) == [x EXCEPT !.error = e]

\* ------------------------------------------------------- the connector sort
\* [...connectors].sort((x) => x.id === last ? -1 : 1): the comparator looks
\* at its first argument only, so the order depends on which element the
\* engine passes first.
Cmp(x, last) == IF x = last THEN -1 ELSE 1

Reverse(s) == [i \in 1..Len(s) |-> s[Len(s) + 1 - i]]

\* V8: count the leading run (reversed when descending), then binary
\* insertion with the inserted element as first argument.
RECURSIVE RunLength(_, _, _, _)
RunLength(a, last, desc, k) ==
  IF k < Len(a) /\ (IF desc THEN Cmp(a[k + 1], last) < 0
                    ELSE Cmp(a[k + 1], last) >= 0)
    THEN RunLength(a, last, desc, k + 1)
    ELSE k

RECURSIVE BinaryInsert(_, _, _)
BinaryInsert(done, rest, last) ==
  IF rest = <<>> THEN done
  ELSE BinaryInsert(IF Cmp(Head(rest), last) < 0 THEN <<Head(rest)>> \o done
                    ELSE done \o <<Head(rest)>>,
                    Tail(rest), last)

TimSort(a, last) ==
  IF Len(a) < 2 THEN a
  ELSE LET desc == Cmp(a[2], last) < 0
           k == RunLength(a, last, desc, 2)
           run == SubSeq(a, 1, k)
       IN BinaryInsert(IF desc THEN Reverse(run) ELSE run,
                       SubSeq(a, k + 1, Len(a)), last)

\* Engines with a linear insertion sort pass the element already in place as
\* first argument.
RECURSIVE InsertPos(_, _, _)
InsertPos(done, j, last) ==
  IF j >= 1 /\ Cmp(done[j], last) > 0 THEN InsertPos(done, j - 1, last) ELSE j

RECURSIVE LinearInsert(_, _, _)
LinearInsert(done, rest, last) ==
  IF rest = <<>> THEN done
  ELSE LET j == InsertPos(done, Len(done), last)
       IN LinearInsert(SubSeq(done, 1, j) \o <<Head(rest)>>
                         \o SubSeq(done, j + 1, Len(done)),
                       Tail(rest), last)

InsertionSort(a, last) ==
  IF Len(a) < 2 THEN a ELSE LinearInsert(<<a[1]>>, Tail(a), last)

\* `sorted`: the orders a build may produce
SortedOrders(conns, last) ==
  IF last = Null THEN {conns}
  ELSE {TimSort(conns, last), InsertionSort(conns, last)}

\* ------------------------------------------------------------ autoConnect
\* One autoConnect() invocation: where it is, the order it iterates, the
\* position in it, and what it has done so far.
IdleRun ==
  [pc |-> "idle", sorted |-> <<>>, idx |-> 0, called |-> <<>>,
   authTrue |-> {}, authFalse |-> {}, connectsDuring |-> 0,
   reentered |-> FALSE, rejectedBy |-> Undefined, began |-> Undefined]
\* began: the status this invocation set when it started
\* called: the connectors this invocation called connect() on
\* connectsDuring: connect() calls made, by any invocation, while this one is
\*   pending
\* reentered: autoConnect() was called again while this one is pending

RunIds == 1..MaxPending

\* invocations suspended at an await
InFlight == {r \in RunIds : runs[r].pc \in {"awaitAuth", "awaitConnect"}}

\* if (this.#isAutoConnecting) return;
EarlyReturn_NoGuard == FALSE

EarlyReturn == isAutoConnecting

\* the negation of `!connector.ready || !connector.isAuthorized`
Eligible_IgnoreReady(c) == c \in authCheck

Eligible(c) == c \in ready /\ c \in authCheck

\* the loop's `continue`s: the first position from i on whose isAuthorized()
\* is called, Len(sorted) + 1 when the loop runs out
RECURSIVE NextCandidate(_, _)
NextCandidate(sorted, i) ==
  IF i > Len(sorted) THEN i
  ELSE IF Eligible(sorted[i]) THEN i
  ELSE NextCandidate(sorted, i + 1)

\* autoConnect() is called (by the constructor's timer or by the caller).  It
\* returns at once when the guard is set; otherwise it runs to its first
\* await, or to its end when no isAuthorized() is called.  The record of a
\* finished invocation is kept until the next one takes its place.
AutoConnectCall ==
  /\ ~storeDestroyed
  /\ IF EarlyReturn
       THEN /\ runs' = [r \in RunIds |->
                          IF r \in InFlight
                            THEN [runs[r] EXCEPT !.reentered = TRUE]
                            ELSE runs[r]]
            /\ UNCHANGED <<state, storeItem, listeners, peakAttached,
                           isAutoConnecting>>
       ELSE /\ RunIds \ InFlight # {}
            /\ \E sorted \in SortedOrders(state.connectors, lastUsedConnector) :
                 LET r == CHOOSE q \in RunIds \ InFlight :
                            \A o \in RunIds \ InFlight : q <= o
                     i == NextCandidate(sorted, 1)
                     s1 == After(state, Connecting(state))
                 IN IF i <= Len(sorted)
                      THEN /\ SetState(Connecting(state))
                           /\ isAutoConnecting' = TRUE
                           /\ runs' = [runs EXCEPT ![r] =
                                         [IdleRun EXCEPT !.pc = "awaitAuth",
                                                         !.began = s1.status,
                                                         !.sorted = sorted,
                                                         !.idx = i]]
                      ELSE /\ SetStateFrom(s1, NotConnected(s1))
                           /\ isAutoConnecting' = FALSE
                           /\ runs' = [runs EXCEPT ![r] =
                                         [IdleRun EXCEPT !.pc = "done",
                                                         !.began = s1.status,
                                                         !.sorted = sorted,
                                                         !.idx = i]]
  /\ UNCHANGED <<config, storeDestroyed, destroyPc, disconnectCalls>>

\* isAuthorized() resolves true: connect() is called on that connector.
AuthResolveTrue(r) ==
  /\ runs[r].pc = "awaitAuth"
  /\ LET c == runs[r].sorted[runs[r].idx]
     IN runs' = [q \in RunIds |->
                   IF q = r
                     THEN [runs[q] EXCEPT !.pc = "awaitConnect",
                                          !.called = Append(@, c),
                                          !.authTrue = @ \cup {c},
                                          !.connectsDuring = @ + 1]
                   ELSE IF q \in InFlight
                     THEN [runs[q] EXCEPT !.connectsDuring = @ + 1]
                   ELSE runs[q]]
  /\ UNCHANGED <<config, state, isAutoConnecting, storeItem,
                 listeners, peakAttached, storeDestroyed, destroyPc,
                 disconnectCalls>>

\* isAuthorized() resolves false: the loop goes on to the next candidate, or
\* runs out and the state is set to disconnected.
AuthResolveFalse(r) ==
  /\ runs[r].pc = "awaitAuth"
  /\ LET i == NextCandidate(runs[r].sorted, runs[r].idx + 1)
         c == runs[r].sorted[runs[r].idx]
     IN IF i <= Len(runs[r].sorted)
          THEN /\ runs' = [runs EXCEPT ![r].idx = i,
                                       ![r].authFalse = @ \cup {c}]
               /\ UNCHANGED <<state, storeItem, listeners, peakAttached,
                              isAutoConnecting>>
          ELSE /\ SetState(NotConnected(state))
               /\ isAutoConnecting' = FALSE
               /\ runs' = [runs EXCEPT ![r].pc = "done", ![r].idx = i,
                                       ![r].authFalse = @ \cup {c},
                                       ![r].reentered = FALSE]
  /\ UNCHANGED <<config, storeDestroyed, destroyPc,
                 disconnectCalls>>

\* isAuthorized() rejects: nothing catches it, autoConnect() rejects.
AuthReject(r) ==
  /\ runs[r].pc = "awaitAuth"
  /\ runs' = [runs EXCEPT ![r].pc = "rejected", ![r].reentered = FALSE,
                          ![r].rejectedBy = "isAuthorized"]
  /\ UNCHANGED <<config, state, isAutoConnecting, storeItem,
                 listeners, peakAttached, storeDestroyed, destroyPc,
                 disconnectCalls>>

\* what connect() resolves with: connection data, or nothing (a connector
\* whose connect() is Promise<void>)
ConnectResults ==
  {NoData} \cup {MkData(a, c) : a \in ConnectAccounts, c \in ChainIds}

ConnectResolve(r, data) ==
  /\ runs[r].pc = "awaitConnect"
  /\ SetState(Connected(state, runs[r].sorted[runs[r].idx], data))
  /\ isAutoConnecting' = FALSE
  /\ runs' = [runs EXCEPT ![r].pc = "done", ![r].reentered = FALSE]
  /\ UNCHANGED <<config, storeDestroyed, destroyPc,
                 disconnectCalls>>

\* connect() rejects: nothing catches it, autoConnect() rejects.
ConnectReject(r) ==
  /\ runs[r].pc = "awaitConnect"
  /\ runs' = [runs EXCEPT ![r].pc = "rejected", ![r].reentered = FALSE,
                          ![r].rejectedBy = "connect"]
  /\ UNCHANGED <<config, state, isAutoConnecting, storeItem,
                 listeners, peakAttached, storeDestroyed, destroyPc,
                 disconnectCalls>>

\* --------------------------------------------------- clearState, destroy
ClearState ==
  /\ ~storeDestroyed
  /\ SetState(Cleared(state))
  /\ UNCHANGED <<config, isAutoConnecting, storeDestroyed, runs,
                 destroyPc, disconnectCalls>>

\* the part of destroy() after its await
DestroyRest ==
  /\ isAutoConnecting' = FALSE
  /\ SetState(Cleared(state))
  /\ storeDestroyed' = TRUE
  /\ destroyPc' = "done"

\* destroy() is called: it awaits connector.disconnect() when a connector is
\* set, and runs through otherwise.
DestroyCall ==
  /\ destroyPc = "idle"
  /\ ~storeDestroyed
  /\ IF state.connector # Undefined
       THEN /\ disconnectCalls' = disconnectCalls + 1
            /\ destroyPc' = "awaitDisconnect"
            /\ UNCHANGED <<state, isAutoConnecting, storeItem, listeners,
                           peakAttached, storeDestroyed>>
       ELSE /\ DestroyRest
            /\ UNCHANGED disconnectCalls
  /\ UNCHANGED <<config, runs>>

DestroyResolve ==
  /\ destroyPc = "awaitDisconnect"
  /\ DestroyRest
  /\ UNCHANGED <<config, runs, disconnectCalls>>

\* disconnect() rejects: destroy() rejects before it clears anything.
DestroyReject ==
  /\ destroyPc = "awaitDisconnect"
  /\ destroyPc' = "rejected"
  /\ UNCHANGED <<config, state, isAutoConnecting, storeItem,
                 listeners, peakAttached, storeDestroyed, runs,
                 disconnectCalls>>

\* what the "wallet" key may hold when the Client is constructed: nothing, or
\* a string a connector was identified by: its id, or its name (the last
\* connector's: the comparator treats every string that is no id alike)
WalletValues ==
  {Null} \cup ConnectorSet \cup {ConnectorName[Connectors[Len(Connectors)]]}

\* ------------------------------------------------------- connector events
OnChange(c, p) ==
  /\ "change" \in listeners[c]
  /\ SetState(Merged(state, p))
  /\ UNCHANGED <<config, isAutoConnecting, storeDestroyed, runs,
                 destroyPc, disconnectCalls>>

OnDisconnect_CallsDisconnect(c) ==
  /\ "disconnect" \in listeners[c]
  /\ SetState(Cleared(state))
  /\ disconnectCalls' = disconnectCalls + 1
  /\ UNCHANGED <<config, isAutoConnecting, storeDestroyed, runs, destroyPc>>

OnDisconnect(c) ==
  /\ "disconnect" \in listeners[c]
  /\ SetState(Cleared(state))
  /\ UNCHANGED <<config, isAutoConnecting, storeDestroyed, runs,
                 destroyPc, disconnectCalls>>

OnError(c, e) ==
  /\ "error" \in listeners[c]
  /\ SetState(WithError(state, e))
  /\ UNCHANGED <<config, isAutoConnecting, storeDestroyed, runs,
                 destroyPc, disconnectCalls>>

\* ------------------------------------------------------ the Keplr connector
KeplrName == "Keplr"
\* the default of the constructor's and of connect()'s chain argument
DefaultChain == "secret-4"
KeplrChains == {DefaultChain, "cosmoshub-4"}
\* the empty string
NoChain == ""

\* new KeplrConnector(chain): provider is not set yet
KeplrConstructed(chain) == [chain |-> chain, provider |-> FALSE]

\* One connect() or switchChain() call: its argument and where it is.  The
\* record of a call that has ended is kept until the next one takes its place.
IdleCall == [op |-> "none", chainId |-> Undefined, pc |-> "idle"]

CallIds == 1..MaxKeplrCalls

\* calls suspended at provider.enable(chainId)
PendingCalls == {i \in CallIds : calls[i].pc = "awaitEnable"}

FreeCall ==
  CHOOSE i \in CallIds \ PendingCalls :
    \A j \in CallIds \ PendingCalls : i <= j

\* switchChain(chainId) is called: it throws when no provider is set, and
\* awaits provider.enable(chainId) otherwise.
KeplrSwitchChain(chainId) ==
  /\ CallIds \ PendingCalls # {}
  /\ calls' = [calls EXCEPT ![FreeCall] =
                 [op |-> "switchChain", chainId |-> chainId,
                  pc |-> IF keplr.provider THEN "awaitEnable" ELSE "rejected"]]
  /\ UNCHANGED <<clientVars, keplr, ctorChain, windowKeplr, walletItem,
                 lastSwitch>>

\* enable() resolves: chain is set to the argument.
KeplrSwitchChainResolve(i) ==
  /\ calls[i].op = "switchChain"
  /\ calls[i].pc = "awaitEnable"
  /\ keplr' = [keplr EXCEPT !.chain = calls[i].chainId]
  /\ lastSwitch' = calls[i].chainId
  /\ calls' = [calls EXCEPT ![i].pc = "resolved"]
  /\ UNCHANGED <<clientVars, ctorChain, windowKeplr, walletItem>>

\* enable() rejects: the catch rethrows.
KeplrSwitchChainReject(i) ==
  /\ calls[i].op = "switchChain"
  /\ calls[i].pc = "awaitEnable"
  /\ calls' = [calls EXCEPT ![i].pc = "rejected"]
  /\ UNCHANGED <<clientVars, keplr, ctorChain, windowKeplr, walletItem,
                 lastSwitch>>

\* connect({ chainId }) is called: getProvider() sets provider from
\* window.keplr or throws; then provider.enable(chainId) is awaited.
KeplrConnect(chainId) ==
  /\ CallIds \ PendingCalls # {}
  /\ keplr' = [keplr EXCEPT !.provider = @ \/ windowKeplr]
  /\ calls' = [calls EXCEPT ![FreeCall] =
                 [op |-> "connect", chainId |-> chainId,
                  pc |-> IF windowKeplr THEN "awaitEnable" ELSE "rejected"]]
  /\ UNCHANGED <<clientVars, ctorChain, windowKeplr, walletItem, lastSwitch>>

\* enable() resolves: setLastUsedConnector(this.name)
KeplrConnectResolve(i) ==
  /\ calls[i].op = "connect"
  /\ calls[i].pc = "awaitEnable"
  /\ walletItem' = KeplrName
  /\ calls' = [calls EXCEPT ![i].pc = "resolved"]
  /\ UNCHANGED <<clientVars, keplr, ctorChain, windowKeplr, lastSwitch>>

KeplrConnectReject(i) ==
  /\ calls[i].op = "connect"
  /\ calls[i].pc = "awaitEnable"
  /\ calls' = [calls EXCEPT ![i].pc = "rejected"]
  /\ UNCHANGED <<clientVars, keplr, ctorChain, windowKeplr, walletItem,
                 lastSwitch>>

\* disconnect(): this.chain = '', then the 'disconnected' event is emitted
KeplrDisconnect ==
  /\ keplr' = [keplr EXCEPT !.chain = NoChain]
  /\ UNCHANGED <<clientVars, ctorChain, windowKeplr, walletItem, lastSwitch,
                 calls>>

\* The Keplr connector while the Client is modelled: constructed, not used.
KeplrIdle ==
  /\ ctorChain = DefaultChain
  /\ keplr = KeplrConstructed(ctorChain)
  /\ windowKeplr = FALSE
  /\ walletItem = Null
  /\ lastSwitch = Undefined
  /\ calls = [i \in CallIds |-> IdleCall]

\* ------------------------------------------------------------------ spec
\* The state after `new Client(config)`: the storage holds what an earlier
\* session left, the store is created and rehydrated from it.
ClientInit ==
  /\ autoConnect \in BOOLEAN
  /\ providerIsFactory \in BOOLEAN
  /\ ready \in SUBSET ConnectorSet
  /\ authCheck \in SUBSET ConnectorSet
  \* a connector lacking both is skipped by the same test as one that is not
  \* ready, so each connector is given at least one of the two
  /\ ready \cup authCheck = ConnectorSet
  /\ lastUsedConnector \in WalletValues
  /\ \E item \in StoredItems :
       /\ state = Hydrated(CreatedState(autoConnect, providerIsFactory, item), item)
       /\ storeItem = IF item.kind = "corrupt" THEN item
                      ELSE Partialize(autoConnect, state)
  /\ isAutoConnecting = FALSE
  /\ listeners = [c \in ConnectorSet |-> {}]
  /\ peakAttached = 0
  /\ storeDestroyed = FALSE
  /\ runs = [r \in RunIds |-> IdleRun]
  /\ destroyPc = "idle"
  /\ disconnectCalls = 0

Init == ClientInit /\ KeplrIdle

Next ==
  \/ AutoConnectCall
  \/ \E r \in RunIds : AuthResolveTrue(r)
  \/ \E r \in RunIds : AuthResolveFalse(r)
  \/ \E r \in RunIds : AuthReject(r)
  \/ \E r \in RunIds, d \in ConnectResults : ConnectResolve(r, d)
  \/ \E r \in RunIds : ConnectReject(r)
  \/ ClearState
  \/ DestroyCall
  \/ DestroyResolve
  \/ DestroyReject
  \/ \E c \in ConnectorSet, p \in Payloads : OnChange(c, p)
  \/ \E c \in ConnectorSet : OnDisconnect(c)
  \/ \E c \in ConnectorSet, e \in Errors : OnError(c, e)

Spec == Init /\ [][Next]_vars

\* ------------------------------------------------------------- Keplr spec
\* The Client while the Keplr connector is modelled: constructed with
\* autoConnect off over an empty store, not used.
ClientIdle ==
  /\ ClientInit
  /\ ~autoConnect
  /\ ~providerIsFactory
  /\ ready = ConnectorSet
  /\ authCheck = ConnectorSet
  /\ lastUsedConnector = Null
  /\ storeItem.kind = "record"
  /\ ~state.data.defined

\* The state after `new KeplrConnector(chain)`.
KeplrInit ==
  /\ ClientIdle
  /\ ctorChain \in KeplrChains
  /\ keplr = KeplrConstructed(ctorChain)
  /\ windowKeplr \in BOOLEAN
  /\ walletItem \in {Null, KeplrName}
  /\ lastSwitch = Undefined
  /\ calls = [i \in CallIds |-> IdleCall]

KeplrNext ==
  \/ \E chainId \in KeplrChains : KeplrSwitchChain(chainId)
  \/ \E i \in CallIds : KeplrSwitchChainResolve(i)
  \/ \E i \in CallIds : KeplrSwitchChainReject(i)
  \/ \E chainId \in KeplrChains : KeplrConnect(chainId)
  \/ \E i \in CallIds : KeplrConnectResolve(i)
  \/ \E i \in CallIds : KeplrConnectReject(i)
  \/ KeplrDisconnect

KeplrSpec == KeplrInit /\ [][KeplrNext]_vars

\* ================================================================ claims
Started(r) == runs[r].pc # "idle"

\* the first connector of `order` that is ready and has an isAuthorized member
RECURSIVE FirstReadyWithCheck(_)
FirstReadyWithCheck(order) ==
  IF order = <<>> THEN Undefined
  ELSE IF Head(order) \in ready /\ Head(order) \in authCheck THEN Head(order)
  ELSE FirstReadyWithCheck(Tail(order))

\* C1: a call of autoConnect() made while an invocation is suspended at an
\* await is ignored: never are two invocations pending at once, and while an
\* invocation is pending connect() is called at most once in total.
C1_SingleFlight ==
  /\ Cardinality(InFlight) <= 1
  /\ \A r \in RunIds : runs[r].connectsDuring <= 1

\* C1 witness: an invocation has called connect() and is still awaiting it,
\* and a second call arrived meanwhile.
C1_Witness ==
  \E r \in RunIds :
    /\ runs[r].pc = "awaitConnect"
    /\ runs[r].reentered
    /\ runs[r].connectsDuring = 1

\* C2: status = connected implies that connector and data.account are defined.
C2_ConnectedHasAccount ==
  state.status = "connected" =>
    state.connector # Undefined /\ AccountOf(state.data) # Undefined

\* C3: status = disconnected implies that connector and data are undefined.
C3_DisconnectedIsCleared ==
  state.status = "disconnected" =>
    state.connector = Undefined /\ ~state.data.defined

\* C4: when connect() rejects during autoConnect(), the invocation ends with
\* status = disconnected and with the guard clear, so that a later call runs.
C4_RejectedConnectEndsDisconnected ==
  [][\A r \in RunIds :
       (runs[r].pc = "awaitConnect" /\ runs'[r].pc = "rejected") =>
         (state'.status = "disconnected" /\ ~isAutoConnecting')]_vars

\* C5: a rejecting isAuthorized() only makes its connector not eligible:
\* autoConnect() does not reject because of it.
C5_AuthFailureSkipsConnector ==
  \A r \in RunIds : runs[r].rejectedBy # "isAuthorized"

\* C6: one invocation of autoConnect() calls connect() on at most one
\* connector; that connector is ready, has an isAuthorized member and its
\* isAuthorized() resolved true, and every connector before it in the try
\* order is not ready, lacks isAuthorized or resolved false; when connect()
\* resolves, status = connected and connector is that connector.
C6_OneRun(r) ==
  /\ Len(runs[r].called) <= 1
  /\ \A k \in 1..Len(runs[r].called) :
       LET c == runs[r].called[k]
       IN /\ c \in ready
          /\ c \in authCheck
          /\ c \in runs[r].authTrue
          /\ c \notin runs[r].authFalse
          /\ \E i \in 1..Len(runs[r].sorted) :
               /\ runs[r].sorted[i] = c
               /\ \A j \in 1..(i - 1) :
                    LET d == runs[r].sorted[j]
                    IN \/ d \notin ready
                       \/ d \notin authCheck
                       \/ (d \in runs[r].authFalse /\ d \notin runs[r].authTrue)

C6_FirstEligibleOnly ==
  /\ [](\A r \in RunIds : C6_OneRun(r))
  /\ [][\A r \in RunIds :
          (runs[r].pc = "awaitConnect" /\ runs'[r].pc = "done") =>
            /\ state'.status = "connected"
            /\ state'.connector = runs[r].called[1]]_vars

\* C6 witness: connectors [a, b] with a not ready: the invocation has ended
\* with connect() called on b only, and b is the active connector.
C6_Witness ==
  \E r \in RunIds :
    /\ runs[r].pc = "done"
    /\ runs[r].sorted = Connectors
    /\ Connectors[1] \notin ready
    /\ runs[r].called = <<Connectors[2]>>
    /\ state.status = "connected"
    /\ state.connector = Connectors[2]

\* C7: when the stored last-used string is the name of a registered connector
\* that is ready and has an isAuthorized member, that connector is the first
\* one autoConnect() tries.
C7_LastUsedNameTriedFirst ==
  \A r \in RunIds, c \in ConnectorSet :
    (Started(r) /\ lastUsedConnector = ConnectorName[c]
       /\ c \in ready /\ c \in authCheck)
      => FirstReadyWithCheck(runs[r].sorted) = c

\* C8: once destroy() has returned, a pending autoConnect() calls connect()
\* no more and changes the state no more.
C8_DestroyDisablesAutoConnect ==
  [][storeDestroyed =>
       /\ state' = state
       /\ \A r \in RunIds : runs'[r].called = runs[r].called]_vars

\* C9: the listeners are taken off the previous connector before they are put
\* on the new one, and in every state the three listeners are attached to
\* the active connector and to no other connector.
C9_ListenersFollowConnector ==
  /\ peakAttached <= 1
  /\ \A c \in ConnectorSet :
       listeners[c] = IF c = state.connector THEN Kinds ELSE {}

\* a clearState() call, directly or from the disconnect listener
ClearStateStep == ClearState \/ \E c \in ConnectorSet : OnDisconnect(c)

\* C10 as stated: clearState() leaves connectors, chains and provider as
\* they were.
C10_ClearStateKeepsProvider ==
  [][ClearStateStep =>
       /\ state'.connectors = state.connectors
       /\ state'.chains = state.chains
       /\ state'.provider = state.provider]_vars

\* C10 as amended: clearState() leaves connectors and chains as they were; it
\* leaves provider as it was when the configured provider is a fixed value or
\* data.chain.id was undefined already, and otherwise replaces it by the
\* factory's provider for an undefined chain id.
C10_ClearStateFrame ==
  [][ClearStateStep =>
       /\ state'.connectors = state.connectors
       /\ state'.chains = state.chains
       /\ state'.provider =
            IF providerIsFactory /\ state.data.defined
                 /\ state.data.chain # Undefined
              THEN [factory |-> TRUE, chainId |-> Undefined]
              ELSE state.provider]_vars

\* C10 witness: a cleared state that still carries the chains of the connector
\* that was active, while the factory's provider was recomputed for no chain.
C10_Witness ==
  /\ state.status = "disconnected"
  /\ state.connector = Undefined
  /\ ~state.data.defined
  /\ state.chains \in ConnectorSet
  /\ providerIsFactory
  /\ state.provider = [factory |-> TRUE, chainId |-> Undefined]
  /\ ~storeDestroyed

\* every place clearState() runs: the call itself, the disconnect listener,
\* and destroy() after its await
ClearStateRuns ==
  ClearStateStep \/ (destroyPc # "done" /\ destroyPc' = "done")

\* C11: after clearState(), whatever the state before, connector, data and
\* error are undefined and status = disconnected.
C11_ClearStateResets ==
  [][ClearStateRuns =>
       /\ state'.connector = Undefined
       /\ ~state'.data.defined
       /\ state'.error = Undefined
       /\ state'.status = "disconnected"]_vars

\* C11 witness: clearState() ran while an autoConnect() was awaiting
\* connect() on a client that had been connected before: the status it had
\* set is gone, and so are connector, data and error.
C11_Witness ==
  /\ \E r \in RunIds : runs[r].pc = "awaitConnect"
  /\ destroyPc = "idle"
  /\ state.chains \in ConnectorSet
  /\ state.status = "disconnected"
  /\ state.connector = Undefined
  /\ ~state.data.defined
  /\ state.error = Undefined

\* the step in which destroy() is called
DestroyIsCalled == destroyPc = "idle" /\ destroyPc' # "idle"

\* C12: destroy() calls disconnect() once when a connector is active at the
\* time it is called (the call is made on that connector) and not at all when
\* none is; nothing else calls disconnect(), in particular not the disconnect
\* event the connector raises in response.
C12_DestroyDisconnectsOnce ==
  /\ [](destroyPc = "idle" => disconnectCalls = 0)
  /\ [][disconnectCalls' =
          IF DestroyIsCalled /\ state.connector # Undefined
            THEN disconnectCalls + 1
            ELSE disconnectCalls]_vars

\* C12 witness: destroy() has called disconnect() on the active connector and
\* is waiting for it; the state was cleared meanwhile, as the connector's
\* disconnect event does, and disconnect() has been called once.
C12_Witness ==
  /\ destroyPc = "awaitDisconnect"
  /\ state.connector = Undefined
  /\ state.status = "disconnected"
  /\ disconnectCalls = 1

\* a step in which an autoConnect() invocation ends without having called
\* connect(): at once, when no connector is ready with an authorization
\* check, or when the last isAuthorized() it awaited resolves false
EndsWithNoneQualifying ==
  \/ /\ AutoConnectCall
     /\ ~isAutoConnecting
     /\ \A c \in ConnectorSet : ~Eligible(c)
  \/ \E r \in RunIds : runs[r].pc = "awaitAuth" /\ runs'[r].pc = "done"

\* C13: when no connector qualifies, autoConnect() ends with data undefined
\* and status = disconnected.
C13_NoneQualifiesEndsDisconnected ==
  [][EndsWithNoneQualifying =>
       (~state'.data.defined /\ state'.status = "disconnected")]_vars

\* C13 witness: an invocation that started with an account in data (status
\* reconnecting) has ended after an isAuthorized() resolved false, without a
\* connect() call: data is undefined and status is disconnected.
C13_Witness ==
  \E r \in RunIds :
    /\ runs[r].pc = "done"
    /\ runs[r].began = "reconnecting"
    /\ runs[r].called = <<>>
    /\ runs[r].authFalse # {}
    /\ state.connector = Undefined
    /\ ~state.data.defined
    /\ state.status = "disconnected"

\* the edges the status field may take
StatusEdges ==
  {<<"disconnected", "connecting">>, <<"connecting", "disconnected">>,
   <<"connecting", "connected">>, <<"disconnected", "reconnecting">>,
   <<"reconnecting", "disconnected">>, <<"reconnecting", "connected">>,
   <<"connected", "disconnected">>}

StatusEdge(from, to) == from = to \/ <<from, to>> \in StatusEdges

\* C14: status changes along the edges of StatusEdges only.  An autoConnect()
\* that finds no candidate sets status twice in one step: both changes count.
C14_StatusFollowsEdges ==
  [][IF AutoConnectCall /\ ~isAutoConnecting
          /\ \A c \in ConnectorSet : ~Eligible(c)
       THEN /\ StatusEdge(state.status, Connecting(state).status)
            /\ StatusEdge(Connecting(state).status, state'.status)
       ELSE StatusEdge(state.status, state'.status)]_vars

\* C15: an error event sets error to the reported error and leaves status,
\* connector and data as they were.
C15_ErrorKeepsStatus ==
  [][\A c \in ConnectorSet, e \in Errors :
       OnError(c, e) =>
         /\ state'.error = e
         /\ state'.status = state.status
         /\ state'.connector = state.connector
         /\ state'.data = state.data]_vars

\* C15 witness: the active connector's error is in the state while an
\* autoConnect() is pending with status reconnecting.
C15_Witness ==
  /\ state.error \in Errors
  /\ state.status = "reconnecting"
  /\ state.connector \in ConnectorSet
  /\ "error" \in listeners[state.connector]
  /\ AccountOf(state.data) # Undefined
  /\ InFlight # {}

\* C16: a change event merges its payload into data: a field the payload has
\* takes the payload's value, a field it lacks keeps the value it had; status
\* and connector stay as they were.
C16_ChangeMergesIntoData ==
  [][\A c \in ConnectorSet, p \in Payloads :
       OnChange(c, p) =>
         /\ state'.data.defined
         /\ state'.data.account =
              IF p.hasAccount THEN p.account ELSE AccountOf(state.data)
         /\ state'.data.chain =
              IF p.hasChain THEN p.chain ELSE ChainIdOf(state.data)
         /\ state'.status = state.status
         /\ state'.connector = state.connector]_vars

\* C16 witness: connected with account 0x1 on chain c1, then a change event
\* carrying account 0x2 only: data has the new account and the chain it had.
C16_Witness ==
  /\ state.status = "connected"
  /\ state.connector \in ConnectorSet
  /\ state.data = MkData("0x2", "c1")

\* C17: a Client constructed with autoConnect = true starts with status
\* reconnecting when the "store" key holds an account and with status
\* connecting when it holds none, whatever the key's content.  (In the state
\* after construction storeItem holds an account exactly when the key did.)
C17_InitialStatusFollowsStore ==
  (Init /\ autoConnect) =>
    state.status = IF storeItem.account # Undefined THEN "reconnecting"
                   ELSE "connecting"

\* C18: a Client constructed with autoConnect = false starts with status
\* disconnected and data undefined, whatever the "store" key holds.
C18_NoAutoConnectStartsEmpty ==
  (Init /\ ~autoConnect) =>
    (state.status = "disconnected" /\ ~state.data.defined)

\* C19: the record under "store" holds data.account and data.chain, and these
\* only when autoConnect is enabled, and chains, each as the state has it;
\* no other member of the state is in it, and no account when autoConnect is
\* disabled.
C19_PersistedSubset ==
  storeItem.kind = "record" =>
    /\ storeItem.others = {}
    /\ storeItem.hasData = autoConnect
    /\ storeItem.account = IF autoConnect THEN AccountOf(state.data)
                           ELSE Undefined
    /\ storeItem.chain = IF autoConnect THEN ChainIdOf(state.data)
                         ELSE Undefined
    /\ storeItem.chains = state.chains

\* C19 witness: a connected state with a connector and an error, of which the
\* record holds the account, the chain and the chains.
C19_Witness ==
  /\ autoConnect
  /\ state.status = "connected"
  /\ state.connector \in ConnectorSet
  /\ state.error \in Errors
  /\ storeItem.kind = "record"
  /\ storeItem.account \in ConnectAccounts
  /\ storeItem.chain \in ChainIds
  /\ storeItem.chains \in ConnectorSet

\* C20: a Keplr connector's chain is the chain it was constructed with, or
\* the argument of the last switchChain() that resolved: connect(),
\* disconnect() and a rejected switchChain() leave it alone.
C20_ChainFollowsSwitchChain ==
  keplr.chain = IF lastSwitch = Undefined THEN ctorChain ELSE lastSwitch

\* C21: whenever no autoConnect() invocation is suspended at an await (each
\* one started has resolved or rejected), the guard is clear, so that the
\* next call runs the connection sequence.
C21_GuardClearWhenNoneInFlight ==
  InFlight = {} => ~isAutoConnecting

====
